---- MODULE Spec2Model ----
(***************************************************************************)
(* MangaLib-Downloader: the retrying HTTP client (api_client.py), volume   *)
(* resolution and the two-level bounded-concurrency download orchestrator  *)
(* with archive assembly (downloader.py), as one asyncio event loop whose  *)
(* tasks interleave at their await points.                                 *)
(***************************************************************************)
EXTENDS Integers, Sequences, FiniteSets, TLC

(* ------------------------------ bounds --------------------------------- *)
\* number of chapters of the requested range (start, end)
NumChapters == 2
\* largest number of page entries a chapter-detail payload carries
MaxPages == 2

(* ------------------------- configuration (Config) ---------------------- *)
\* first chapter of cfg.chapter_range
ChapterStart == 54
max_concurrent_chapters == 1
max_concurrent_images == 1
\* cfg.fallback_volume_range = (FallbackStart, FallbackEnd)
FallbackStart == 1
FallbackEnd == 2
\* retries arguments of the client's loops
ListRetries == 4
InfoRetries == 3
ChapterRetries == 4
ImageRetries == 10

None == "None"
Chapters == ChapterStart .. (ChapterStart + NumChapters - 1)

(* ------------------------ the network, per attempt --------------------- *)
\* one attempt of a JSON GET: a 200 with a JSON body, a 429, another error
\* status (raise_for_status), or a transport / timeout / decode error
JsonResponses == {"ok", "r429", "status", "neterr"}
\* one attempt of an image GET: additionally a 403 and a 200 with no body
ImageResponses == {"ok", "empty", "r429", "r403", "status", "neterr"}

\* the responses of the successive attempts of one call: n times a, then b
Pattern(a, n, b, len) == [k \in 1..len |-> IF k <= n THEN a ELSE b]
Patterns(R, len) == {Pattern(a, n, b, len) : a \in R, n \in 0..len, b \in R}

(* ------------------------ MangaAPIClient._get_json --------------------- *)
RECURSIVE get_json_from(_, _, _)
get_json_from(rs, attempt, retries) ==
  IF attempt >= retries
  THEN [ok |-> FALSE, requests |-> attempt, error |-> "RetriesExhausted"]
  ELSE LET r == rs[attempt + 1] IN
       CASE r = "ok"   -> [ok |-> TRUE, requests |-> attempt + 1, error |-> None]
         [] r = "r429" -> get_json_from(rs, attempt + 1, retries)
         [] OTHER      -> IF attempt = retries - 1
                          THEN [ok |-> FALSE, requests |-> attempt + 1, error |-> r]
                          ELSE get_json_from(rs, attempt + 1, retries)

\* variant: the loop makes one attempt more than retries
get_json_one_more(rs, retries) ==
  get_json_from(Append(rs, rs[Len(rs)]), 0, retries + 1)
\* for attempt in range(retries): ... raise RuntimeError("Retries exhausted")
get_json(rs, retries) == get_json_from(rs, 0, retries)

(* ---------------------- MangaAPIClient.download_image ------------------ *)
\* variant: a failed warm-up GET raises out of _warm_up_session
warm_up_session_raising(w) == IF w = "fail" THEN "raise" ELSE "return"
\* _warm_up_session: a GET to the referer whose failure is swallowed; w is the
\* outcome of that GET ("ok" or "fail"), the call returns normally either way
warm_up_session(w) == "return"

\* rs[k] is the response to the k-th image request, ws[k] the outcome of the
\* warm-up GET made after it (used on a 403 only).  The result tells how the
\* call ended ("return" or "raise"), whether dest.write_bytes(data) ran, and
\* the requests issued in order, "img" for an image GET, "warm" for a warm-up
RECURSIVE download_image_from(_, _, _, _, _)
download_image_from(rs, ws, attempt, retries, trace) ==
  IF attempt >= retries
  THEN [outcome |-> "return", wrote |-> FALSE, trace |-> trace]
  ELSE LET r == rs[attempt + 1]
           t == Append(trace, "img") IN
       CASE r = "r429" -> download_image_from(rs, ws, attempt + 1, retries, t)
         [] r = "r403" /\ attempt < retries - 1 ->
              IF warm_up_session(ws[attempt + 1]) = "return"
              THEN download_image_from(rs, ws, attempt + 1, retries,
                                       Append(t, "warm"))
              ELSE [outcome |-> "raise", wrote |-> FALSE,
                    trace |-> Append(t, "warm")]
         [] r = "ok" -> [outcome |-> "return", wrote |-> TRUE, trace |-> t]
         [] OTHER -> IF attempt = retries - 1
                     THEN [outcome |-> "raise", wrote |-> FALSE, trace |-> t]
                     ELSE download_image_from(rs, ws, attempt + 1, retries, t)

download_image(rs, ws, retries) == download_image_from(rs, ws, 0, retries, <<>>)

(* --------------------- JSON values of the API payloads ----------------- *)
\* [t |-> "none"], [t |-> "int", v |-> n], [t |-> "float", i |-> n, f |-> digits],
\* [t |-> "str", s |-> chars], [t |-> "list", items |-> <<values>>],
\* [t |-> "dict", items |-> <<[k |-> key, v |-> value], ...>>] in insertion order
JNone == [t |-> "none"]
JInt(n) == [t |-> "int", v |-> n]
JFloat(n, d) == [t |-> "float", i |-> n, f |-> d]
JStr(chars) == [t |-> "str", s |-> chars]
JList(items) == [t |-> "list", items |-> items]
JDict(items) == [t |-> "dict", items |-> items]
KV(key, value) == [k |-> key, v |-> value]

Digits == <<"0", "1", "2", "3", "4", "5", "6", "7", "8", "9">>
IsDigit(c) == \E d \in 1..10 : Digits[d] = c
DigitVal(c) == (CHOOSE d \in 1..10 : Digits[d] = c) - 1
AllDigits(s) == \A k \in 1..Len(s) : IsDigit(s[k])

RECURSIVE NumOf(_)
NumOf(s) == IF Len(s) = 0 THEN 0
            ELSE 10 * NumOf(SubSeq(s, 1, Len(s) - 1)) + DigitVal(s[Len(s)])

RECURSIVE IntToStr(_)
IntToStr(n) == IF n < 10 THEN <<Digits[n + 1]>>
               ELSE Append(IntToStr(n \div 10), Digits[(n % 10) + 1])

RECURSIVE StripZeros(_)
StripZeros(s) == IF Len(s) > 0 /\ s[Len(s)] = "0"
                 THEN StripZeros(SubSeq(s, 1, Len(s) - 1)) ELSE s

\* an optional value: <<>> for Python's None (or a raised ValueError /
\* TypeError where noted), <<x>> for the value x
Nothing == <<>>
Some(x) == <<x>>
IsSome(o) == Len(o) = 1
The(o) == o[1]

\* a float is kept exactly, as its integer part and its fractional digits
Float(i, fracChars) == [i |-> i, f |-> StripZeros(fracChars)]
\* float(chapter_num) of an int
FloatOfInt(n) == Float(n, <<>>)

\* Python float(s) on strings over digits, ".", "," and other characters:
\* digits with at most one ".", at least one digit; Nothing: ValueError
PyFloat(s) ==
  IF Len(s) > 0 /\ AllDigits(s) THEN Some(Float(NumOf(s), <<>>))
  ELSE IF \E k \in 1..Len(s) :
            /\ s[k] = "."
            /\ AllDigits(SubSeq(s, 1, k - 1))
            /\ AllDigits(SubSeq(s, k + 1, Len(s)))
            /\ Len(s) > 1
       THEN LET k == CHOOSE j \in 1..Len(s) : s[j] = "."
            IN  Some(Float(NumOf(SubSeq(s, 1, k - 1)), SubSeq(s, k + 1, Len(s))))
       ELSE Nothing

\* str.replace(",", ".")
ReplaceComma(s) == [k \in 1..Len(s) |-> IF s[k] = "," THEN "." ELSE s[k]]

\* MangaAPIClient._parse_float
parse_float(value) ==
  IF IsSome(PyFloat(value)) THEN PyFloat(value)
  ELSE PyFloat(ReplaceComma(value))

\* str(x) of a JSON value; a list or dict prints as a bracketed text
PyStr(x) ==
  CASE x.t = "int"   -> IntToStr(x.v)
    [] x.t = "float" -> IntToStr(x.i) \o <<".">> \o
                        (IF Len(x.f) = 0 THEN <<"0">> ELSE x.f)
    [] x.t = "str"   -> x.s
    [] x.t = "none"  -> <<"N", "o", "n", "e">>
    [] OTHER         -> <<"[", "]">>

\* int(x): the value, or Nothing where Python raises ValueError / TypeError
PyInt(x) ==
  CASE x.t = "int"   -> Some(x.v)
    [] x.t = "float" -> Some(x.i)
    [] x.t = "str"   -> IF Len(x.s) > 0 /\ AllDigits(x.s)
                        THEN Some(NumOf(x.s)) ELSE Nothing
    [] OTHER         -> Nothing

HasKey(obj, key) == \E k \in 1..Len(obj.items) : obj.items[k].k = key

\* dict.get(key, default)
GetD(obj, key, default) ==
  IF HasKey(obj, key)
  THEN obj.items[CHOOSE k \in 1..Len(obj.items) : obj.items[k].k = key].v
  ELSE default

\* dict.get(key), None when the key is absent
Get(obj, key) ==
  IF \E k \in 1..Len(obj.items) : obj.items[k].k = key
  THEN obj.items[CHOOSE k \in 1..Len(obj.items) : obj.items[k].k = key].v
  ELSE JNone

\* truth value of a JSON value (for "or" and "if not")
Truthy(x) ==
  CASE x.t = "none"  -> FALSE
    [] x.t = "int"   -> x.v # 0
    [] x.t = "float" -> ~(x.i = 0 /\ Len(StripZeros(x.f)) = 0)
    [] x.t = "str"   -> Len(x.s) > 0
    [] OTHER         -> Len(x.items) > 0

PyOr(a, b) == IF Truthy(a) THEN a ELSE b

(* ------------------ MangaAPIClient.fetch_chapters_list ----------------- *)
EmptyMap == [k \in {} |-> 0]
MapPut(m, key, value) ==
  [x \in (DOMAIN m) \cup {key} |-> IF x = key THEN value ELSE m[x]]

\* what "for item in items" iterates over: the elements of a list, the keys
\* of a dict, the characters of a string; Nothing: not iterable (TypeError)
IterOf(items) ==
  CASE items.t = "list" -> Some(items.items)
    [] items.t = "dict" -> Some([k \in 1..Len(items.items) |->
                                   JStr(<<items.items[k].k>>)])
    [] items.t = "str"  -> Some([k \in 1..Len(items.s) |-> JStr(<<items.s[k]>>)])
    [] OTHER            -> Nothing

\* the loop body over items[k..]; Nothing when an exception leaves the loop
\* (item.get on a value that is not a dict), else the mapping built
RECURSIVE chapters_loop(_, _, _)
chapters_loop(items, k, mapping) ==
  IF k > Len(items) THEN Some(mapping)
  ELSE LET item == items[k] IN
       IF item.t # "dict" THEN Nothing
       ELSE LET chapter_num == Get(item, "number")
                volume_num == Get(item, "volume")
                chapter_float == parse_float(PyStr(chapter_num))
                volume_int == PyInt(volume_num)
            IN  IF chapter_num = JNone \/ volume_num = JNone
                THEN chapters_loop(items, k + 1, mapping)
                ELSE IF ~IsSome(volume_int)
                THEN chapters_loop(items, k + 1, mapping)
                ELSE IF IsSome(chapter_float)
                THEN chapters_loop(items, k + 1,
                                   MapPut(mapping, The(chapter_float), The(volume_int)))
                ELSE chapters_loop(items, k + 1, mapping)

\* the mapping fetch_chapters_list stores for the outcome of its _get_json
\* call: ok is whether the call returned, data the parsed body
chapters_mapping(ok, data) ==
  IF ~ok THEN EmptyMap
  ELSE LET items == IF data.t = "dict"
                    THEN (IF \E k \in 1..Len(data.items) : data.items[k].k = "data"
                          THEN Get(data, "data") ELSE JList(<<>>))
                    ELSE JList(<<>>)
           it == IterOf(items)
       IN  IF ~IsSome(it) THEN EmptyMap
           ELSE LET m == chapters_loop(The(it), 1, EmptyMap)
                IN  IF IsSome(m) THEN The(m) ELSE EmptyMap

\* fetch_chapters_list: the cached mapping when the slug is cached, else the
\* mapping built from the response, which the caller stores in the cache
fetch_chapters_list(cache, ok, data) ==
  IF IsSome(cache) THEN The(cache) ELSE chapters_mapping(ok, data)

(* -------------------- MangaAPIClient.fetch_series_info ----------------- *)
\* the result fetch_series_info stores for the outcome of its _get_json call
series_result(ok, data) ==
  IF ~ok THEN JDict(<<>>)
  ELSE IF data.t = "dict"
       THEN (IF \E k \in 1..Len(data.items) : data.items[k].k = "data"
             THEN Get(data, "data") ELSE JDict(<<>>))
       ELSE JDict(<<>>)

\* variant: the request is made whether or not the slug is cached
fetch_series_info_uncached(cache, ok, data) == series_result(ok, data)

\* "if slug in self._series_cache: return self._series_cache[slug]", else the
\* result of the request, which the caller stores under the slug
fetch_series_info(cache, ok, data) ==
  IF IsSome(cache) THEN The(cache) ELSE series_result(ok, data)

(* --------------- MangaAPIClient._search_volume_in_metadata ------------- *)
RECURSIVE search(_, _)
RECURSIVE search_each(_, _, _)
\* the first result that is not None among search(values[k]), k ascending
search_each(values, k, target_chapter) ==
  IF k > Len(values) THEN Nothing
  ELSE LET result == search(values[k], target_chapter)
       IN  IF IsSome(result) THEN result
           ELSE search_each(values, k + 1, target_chapter)

search(obj, target_chapter) ==
  IF obj.t = "dict"
  THEN LET num == PyOr(Get(obj, "number"), Get(obj, "chapter_number"))
           vol == Get(obj, "volume")
           here == IF num # JNone /\ vol # JNone
                      /\ parse_float(PyStr(num)) = Some(target_chapter)
                   THEN PyInt(vol) ELSE Nothing
           values == [k \in 1..Len(obj.items) |-> obj.items[k].v]
       IN  IF IsSome(here) THEN here
           ELSE search_each(values, 1, target_chapter)
  ELSE IF obj.t = "list"
  THEN search_each(obj.items, 1, target_chapter)
  ELSE Nothing

search_volume_in_metadata(metadata, target_chapter) ==
  search(metadata, target_chapter)

(* ------------------------- ChapterDownloader --------------------------- *)
StartsWith(s, prefix) ==
  Len(s) >= Len(prefix) /\ SubSeq(s, 1, Len(prefix)) = prefix

\* cfg.image_host
ImageHost == <<"h", "t", "t", "p", "s", ":", "/", "/", "i">>

\* build_image_url; Nothing: it raises (ValueError on an empty path,
\* AttributeError on a path that is not a string)
build_image_url(path, host) ==
  IF ~Truthy(path) \/ path.t # "str" THEN Nothing
  ELSE LET p1 == IF StartsWith(path.s, <<"/", "/">>)
                 THEN SubSeq(path.s, 2, Len(path.s)) ELSE path.s
       IN  IF StartsWith(p1, <<"h", "t", "t", "p">>) THEN Some(p1)
           ELSE IF ~StartsWith(p1, <<"/">>) THEN Some(host \o <<"/">> \o p1)
           ELSE Some(host \o p1)

\* the comprehension building urls in download_chapter, from pages[k..]
RECURSIVE urls_from(_, _, _)
urls_from(pages, k, urls) ==
  IF k > Len(pages) THEN Some(urls)
  ELSE LET p == pages[k] IN
       IF p.t # "dict" THEN urls_from(pages, k + 1, urls)
       ELSE LET u == build_image_url(PyOr(Get(p, "url"), GetD(p, "image", JStr(<<>>))),
                                     ImageHost)
            IN  IF IsSome(u) THEN urls_from(pages, k + 1, Append(urls, The(u)))
                ELSE Nothing

\* download_chapter between the chapter-detail fetch and _download_images:
\* the list of image URLs, or Nothing when an exception is raised
chapter_urls(chapter_json) ==
  IF chapter_json.t # "dict" THEN Nothing
  ELSE LET data == GetD(chapter_json, "data", JDict(<<>>)) IN
       IF data.t # "dict" THEN Nothing
       ELSE LET pages == GetD(data, "pages", JList(<<>>))
                teams == GetD(data, "teams", JList(<<>>))
            IN  IF ~Truthy(pages) THEN Nothing
                ELSE IF ~IsSome(IterOf(teams)) \/ ~IsSome(IterOf(pages)) THEN Nothing
                ELSE LET urls == urls_from(The(IterOf(pages)), 1, <<>>)
                     IN  IF ~IsSome(urls) THEN Nothing
                         ELSE IF The(urls) = <<>> THEN Nothing
                         ELSE urls

\* format(n, "0{width}d")
RECURSIVE Zeros(_)
Zeros(n) == IF n <= 0 THEN <<>> ELSE <<"0">> \o Zeros(n - 1)
Pad(n, width) == Zeros(width - Len(IntToStr(n))) \o IntToStr(n)

\* the staging file name of the image at position idx (the extension, taken
\* from the URL, follows the number)
image_filename(idx) == Pad(idx, 3)
\* "Volume {volume:02d}" and "Chapter {number:03d}.cbz"
volume_folder(volume) == <<"V">> \o Pad(volume, 2)
chapter_cbz(number) == <<"C">> \o Pad(number, 3)

\* models.ChapterInfo (the fields archive assembly reads)
ChapterInfo(number, volume, pages_count) ==
  [number |-> number, volume |-> volume, pages_count |-> pages_count]

(* ------------------------ what the server may answer ------------------- *)
Ch(k) == ChapterStart + k
\* GET {api_base}/{slug}/chapters
Listings ==
  { JDict(<<KV("data", JList(<<
        JDict(<<KV("number", JStr(IntToStr(Ch(0)))), KV("volume", JStr(<<"1">>))>>)
      >>))>>) }
\* GET {api_base}/{slug}: a series metadata object
SeriesPayloads ==
  { JDict(<<KV("data", JDict(<<
        KV("name", JStr(<<"T">>)),
        KV("cover", JDict(<<KV("default", JStr(<<"/", "c">>))>>)),
        KV("items", JList(<<
            JDict(<<KV("chapter_number", JInt(Ch(1))), KV("volume", JInt(FallbackEnd))>>)
          >>))
      >>))>>) }
\* GET {api_base}/{slug}/chapter: n pages with host-relative URLs, a page
\* with an empty URL, pages that are not objects, data that is not an object
PagesPayload(n) ==
  JDict(<<KV("data", JDict(<<
      KV("id", JInt(7)),
      KV("pages", JList([k \in 1..n |-> JDict(<<KV("url", JStr(<<"p", Digits[k + 1]>>))>>)]))
    >>))>>)
ChapterPayloads(pages) ==
  { PagesPayload(n) : n \in {0, pages} } \cup
  { JDict(<<KV("data", JDict(<<KV("pages", JList(<<JDict(<<KV("url", JStr(<<>>))>>)>>))>>))>>),
    JDict(<<KV("data", JDict(<<KV("pages", JList(<<JStr(<<"x">>)>>))>>))>>),
    JDict(<<KV("data", JList(<<JInt(1)>>))>>) }

\* the ways a _get_json call with the given retries can end
JsonOutcomes(retries) ==
  { get_json(rs, retries).ok : rs \in Patterns(JsonResponses, retries) }
ListOutcomes == JsonOutcomes(ListRetries)
InfoOutcomes == JsonOutcomes(InfoRetries)
ChapterOutcomes == JsonOutcomes(ChapterRetries)
\* the ways a download_image call of a chapter page can end: [outcome, wrote]
ImagePatterns ==
  { Pattern(a, n, b, ImageRetries) :
      a \in ImageResponses, n \in {0, ImageRetries - 1}, b \in ImageResponses }
WarmPatterns == { [k \in 1..ImageRetries |-> w] : w \in {"ok", "fail"} }
ImageOutcomes ==
  { LET out == download_image(rs, ws, ImageRetries)
    IN  [outcome |-> out.outcome, wrote |-> out.wrote] :
      rs \in ImagePatterns, ws \in WarmPatterns }

(* ------------------------------- state --------------------------------- *)
VARIABLES
  cfg,            \* Config: volume_override, cleanup_temp, max_concurrent_images
  srv,            \* the remote service of the run: the pages of a chapter
                  \* that has any, and how a call to the chapters-list and
                  \* series endpoints may end
  pc,             \* where download_chapters is
  session,        \* MangaAPIClient._session: "none", "open", "closed"
  chapters_map,   \* _chapters_map.get(slug): Nothing while the slug is absent
  series_cache,   \* _series_cache.get(slug): Nothing while the slug is absent
  chPc,           \* per chapter: where its download_with_limit task is
  chVolume,       \* per chapter: the volume resolve_volume returned
  chCand,         \* per chapter: detected_volume of the metadata search
  chBf,           \* per chapter: the volume _bruteforce_volume tries next
  chUrls,         \* per chapter: urls of download_chapter
  chFetch,        \* per chapter: its last fetch_chapter_data call, volume and
                  \* whether it returned
  img,            \* per chapter: the state of each download_task
  tmp,            \* per chapter: its tmp_dir, Nothing or Some(set of files)
  results,        \* what asyncio.gather collects, per chapter
  successful,     \* _process_results: the successful list
  failed_count,   \* _process_results: failed_count
  archives,       \* the series archives written, each a set of containers
  summary,        \* the arguments of _print_summary
  returned,       \* the return value of download_chapters
  imgCall,        \* one download_image call on its own: arguments and result
  call            \* one call of another client or downloader function on its
                  \* own: the function, its arguments and, once made, its result

vars == <<cfg, srv, pc, session, chapters_map, series_cache, chPc, chVolume, chCand,
          chBf, chUrls, chFetch, img, tmp, results, successful, failed_count,
          archives, summary, returned, imgCall, call>>

Pending == [kind |-> "pending"]
RNone == [kind |-> "None"]
RException == [kind |-> "exception"]
ROk(tmp_dir, info) == [kind |-> "ok", tmp_dir |-> tmp_dir, info |-> info]

\* the runs checked: a series of chapters of MaxPages pages downloaded
\* with a volume override, and a series of one-page chapters whose volumes
\* are resolved, with and without cleanup, against flaky metadata endpoints
Runs ==
  { [cfg |-> [volume_override |-> Some(FallbackEnd), cleanup_temp |-> TRUE,
              max_concurrent_images |-> max_concurrent_images],
     srv |-> [pages |-> MaxPages, meta_outcomes |-> {TRUE}]] } \cup
  { [cfg |-> [volume_override |-> Nothing, cleanup_temp |-> b,
              max_concurrent_images |-> max_concurrent_images],
     srv |-> [pages |-> 1, meta_outcomes |-> {TRUE, FALSE}]] : b \in BOOLEAN }

InitRun ==
  /\ pc = "enter"
  /\ session = "none"
  /\ chapters_map = Nothing
  /\ series_cache = Nothing
  /\ chPc = [c \in Chapters |-> "pending"]
  /\ chVolume = [c \in Chapters |-> Nothing]
  /\ chCand = [c \in Chapters |-> Nothing]
  /\ chBf = [c \in Chapters |-> FallbackStart]
  /\ chUrls = [c \in Chapters |-> <<>>]
  /\ chFetch = [c \in Chapters |-> Nothing]
  /\ img = [c \in Chapters |-> <<>>]
  /\ tmp = [c \in Chapters |-> Nothing]
  /\ results = [c \in Chapters |-> Pending]
  /\ successful = <<>>
  /\ failed_count = 0
  /\ archives = <<>>
  /\ summary = Nothing
  /\ returned = Nothing

Init ==
  /\ \E run \in Runs : cfg = run.cfg /\ srv = run.srv
  /\ InitRun
  /\ imgCall = [phase |-> "idle"]
  /\ call = [phase |-> "idle"]

(* ----------------------- download_chapters: setup ---------------------- *)
\* async with MangaAPIClient(cfg): __aenter__ opens the session and warms up
aenter ==
  /\ pc = "enter"
  /\ session' = "open"
  /\ pc' = "prefetch_list"
  /\ UNCHANGED <<cfg, srv, chapters_map, series_cache, chPc, chVolume, chCand, chBf,
                 chUrls, chFetch, img, tmp, results, successful, failed_count, archives,
                 summary, returned, imgCall, call>>

\* try: await api.fetch_chapters_list(slug) except Exception: pass
prefetch_chapters_list ==
  /\ pc = "prefetch_list"
  /\ \E ok \in ListOutcomes \cap srv.meta_outcomes, data \in Listings :
       chapters_map' = Some(fetch_chapters_list(chapters_map, ok, data))
  /\ pc' = "prefetch_info"
  /\ UNCHANGED <<cfg, srv, session, series_cache, chPc, chVolume, chCand, chBf,
                 chUrls, chFetch, img, tmp, results, successful, failed_count, archives,
                 summary, returned, imgCall, call>>

\* series_meta = await api.fetch_series_info(slug); the chapter tasks are
\* created and gathered next
prefetch_series_info ==
  /\ pc = "prefetch_info"
  /\ \E ok \in InfoOutcomes \cap srv.meta_outcomes, data \in SeriesPayloads :
       series_cache' = Some(fetch_series_info(series_cache, ok, data))
  /\ pc' = "gather"
  /\ UNCHANGED <<cfg, srv, session, chapters_map, chPc, chVolume, chCand, chBf,
                 chUrls, chFetch, img, tmp, results, successful, failed_count, archives,
                 summary, returned, imgCall, call>>

(* ------------------- the image tasks of a chapter --------------------- *)
\* the download_tasks among tasks that are inside "async with sem"
InFlight(tasks) == {i \in 1..Len(tasks) : tasks[i] = "running"}
InFlightImages(c) == InFlight(img[c])
\* variant: the limiter admits a task while max_concurrent_images are inside
image_sem_free_off_by_one(tasks) ==
  Cardinality(InFlight(tasks)) <= cfg.max_concurrent_images
\* asyncio.Semaphore(max_concurrent_images) of the chapter has a free slot
image_sem_free(tasks) == Cardinality(InFlight(tasks)) < cfg.max_concurrent_images

\* "async with sem" in download_task: while the semaphore has a free slot the
\* longest-waiting task (the lowest idx) enters and calls download_image
RECURSIVE admit(_)
admit(tasks) ==
  IF image_sem_free(tasks) /\ \E i \in 1..Len(tasks) : tasks[i] = "waiting"
  THEN LET first == CHOOSE i \in 1..Len(tasks) :
                       /\ tasks[i] = "waiting"
                       /\ \A j \in 1..(i - 1) : tasks[j] # "waiting"
       IN  admit([tasks EXCEPT ![first] = "running"])
  ELSE tasks

(* --------------------------- one chapter task -------------------------- *)
\* the chapter tasks inside "async with sem" of _download_all_chapters
InFlightChapters == {c \in Chapters : chPc[c] \notin {"pending", "done"}}
\* variant: the limiter admits a task while max_concurrent_chapters are inside
chapter_sem_free_off_by_one ==
  Cardinality(InFlightChapters) <= max_concurrent_chapters
\* variant: the slot of a chapter that has ended is never given back
chapter_sem_free_never_released ==
  Cardinality({c \in Chapters : chPc[c] # "pending"}) < max_concurrent_chapters
\* asyncio.Semaphore(max_concurrent_chapters) has a free slot
chapter_sem_free == Cardinality(InFlightChapters) < max_concurrent_chapters

\* download_chapter's "except Exception": the chapter ends with None ...
except_results(c) == [results EXCEPT ![c] = RNone]
\* variant: the failure of one chapter ends the tasks of all chapters
except_chPc_cancel_all(c) == [d \in Chapters |-> "done"]
\* ... its task is over, the tasks of the other chapters are not touched ...
except_chPc(c) == [chPc EXCEPT ![c] = "done"]
\* ... and shutil.rmtree(tmp_dir) has removed its staging directory
except_tmp(c) == [tmp EXCEPT ![c] = Nothing]
\* the locals of a download_chapter call that has returned are gone
return_chVolume(c) == [chVolume EXCEPT ![c] = Nothing]
return_chCand(c) == [chCand EXCEPT ![c] = Nothing]
return_chBf(c) == [chBf EXCEPT ![c] = FallbackStart]
return_chUrls(c) == [chUrls EXCEPT ![c] = <<>>]
return_chFetch(c) == [chFetch EXCEPT ![c] = Nothing]
\* a fetch_chapter_data(slug, chapter_num, volume) call and how it ended
Fetched(volume, ok) == Some([volume |-> volume, ok |-> ok])

\* download_chapter's "except Exception" clause as a whole
download_chapter_except(c) ==
  /\ chPc' = except_chPc(c)
  /\ tmp' = except_tmp(c)
  /\ results' = except_results(c)
  /\ chVolume' = return_chVolume(c)
  /\ chCand' = return_chCand(c)
  /\ chBf' = return_chBf(c)
  /\ chUrls' = return_chUrls(c)
  /\ chFetch' = return_chFetch(c)

\* resolve_volume goes on to _bruteforce_volume, which raises at once when the
\* fallback range is empty
bruteforce_enter(c, dir, cand, fetch) ==
  IF FallbackStart > FallbackEnd THEN download_chapter_except(c)
  ELSE /\ chPc' = [chPc EXCEPT ![c] = "brute"]
       /\ chFetch' = [chFetch EXCEPT ![c] = fetch]
       /\ tmp' = [tmp EXCEPT ![c] = dir]
       /\ chCand' = [chCand EXCEPT ![c] = cand]
       /\ chBf' = [chBf EXCEPT ![c] = FallbackStart]
       /\ UNCHANGED <<results, chVolume, chUrls>>

\* resolve_volume returns volume: download_chapter goes on to fetch_chapter_data
resolve_return(c, dir, volume, fetch) ==
  /\ chPc' = [chPc EXCEPT ![c] = "fetch"]
  /\ chFetch' = [chFetch EXCEPT ![c] = fetch]
  /\ tmp' = [tmp EXCEPT ![c] = dir]
  /\ chVolume' = [chVolume EXCEPT ![c] = Some(volume)]
  /\ UNCHANGED <<results, chCand, chBf, chUrls>>

\* download_with_limit(ch) acquires the semaphore and download_chapter runs to
\* its first request: tmp_dir.mkdir (outside the try), then resolve_volume up
\* to the override, the cached chapter map and the metadata search
download_with_limit(c) ==
  /\ pc = "gather"
  /\ chPc[c] = "pending"
  /\ \A d \in Chapters : d < c => chPc[d] # "pending"
  /\ chapter_sem_free
  /\ \E mkdir \in {"ok", "OSError"},
        lok \in ListOutcomes \cap srv.meta_outcomes, ldata \in Listings,
        iok \in InfoOutcomes \cap srv.meta_outcomes, idata \in SeriesPayloads :
       IF mkdir = "OSError"
       THEN /\ results' = [results EXCEPT ![c] = RException]
            /\ chPc' = [chPc EXCEPT ![c] = "done"]
            /\ UNCHANGED <<tmp, chVolume, chCand, chBf, chUrls, chFetch,
                           chapters_map, series_cache>>
       ELSE IF IsSome(cfg.volume_override)
       THEN /\ resolve_return(c, Some({}), The(cfg.volume_override), Nothing)
            /\ UNCHANGED <<chapters_map, series_cache>>
       ELSE LET cmap == fetch_chapters_list(chapters_map, lok, ldata)
                target_chapter == FloatOfInt(c)
            IN  /\ chapters_map' = Some(cmap)
                /\ IF cmap # EmptyMap /\ target_chapter \in DOMAIN cmap
                   THEN /\ resolve_return(c, Some({}), cmap[target_chapter], Nothing)
                        /\ UNCHANGED series_cache
                   ELSE LET series_info == fetch_series_info(series_cache, iok, idata)
                            detected_volume ==
                              search_volume_in_metadata(series_info, target_chapter)
                        IN  /\ series_cache' = Some(series_info)
                            /\ IF IsSome(detected_volume)
                               THEN /\ chPc' = [chPc EXCEPT ![c] = "validate"]
                                    /\ tmp' = [tmp EXCEPT ![c] = Some({})]
                                    /\ chCand' = [chCand EXCEPT ![c] = detected_volume]
                                    /\ UNCHANGED <<results, chVolume, chBf, chUrls,
                                                   chFetch>>
                               ELSE bruteforce_enter(c, Some({}), Nothing, Nothing)
  /\ UNCHANGED <<cfg, srv, pc, session, img, successful, failed_count, archives,
                 summary, returned, imgCall, call>>

\* variant: the candidate is returned whether or not its fetch succeeded
resolve_validate_unchecked(c) ==
  /\ chPc[c] = "validate"
  /\ \E ok \in ChapterOutcomes :
       resolve_return(c, tmp[c], The(chCand[c]), Fetched(The(chCand[c]), ok))
  /\ UNCHANGED <<cfg, srv, pc, session, chapters_map, series_cache, img, successful,
                 failed_count, archives, summary, returned, imgCall, call>>

\* resolve_volume: the chapter-detail fetch that validates detected_volume
\* returns (the candidate is the volume) or raises (brute force follows)
resolve_validate(c) ==
  /\ chPc[c] = "validate"
  /\ \E ok \in ChapterOutcomes :
       IF ok THEN resolve_return(c, tmp[c], The(chCand[c]),
                                 Fetched(The(chCand[c]), TRUE))
       ELSE bruteforce_enter(c, tmp[c], chCand[c], Fetched(The(chCand[c]), FALSE))
  /\ UNCHANGED <<cfg, srv, pc, session, chapters_map, series_cache, img, successful,
                 failed_count, archives, summary, returned, imgCall, call>>

\* one iteration of _bruteforce_volume's loop, for the volume chBf[c]
bruteforce_volume(c) ==
  /\ chPc[c] = "brute"
  /\ \E ok \in ChapterOutcomes :
       IF ok THEN resolve_return(c, tmp[c], chBf[c], Fetched(chBf[c], TRUE))
       ELSE IF chBf[c] + 1 > FallbackEnd THEN download_chapter_except(c)
       ELSE /\ chBf' = [chBf EXCEPT ![c] = chBf[c] + 1]
            /\ chFetch' = [chFetch EXCEPT ![c] = Fetched(chBf[c], FALSE)]
            /\ UNCHANGED <<chPc, chVolume, chCand, chUrls, tmp, results>>
  /\ UNCHANGED <<cfg, srv, pc, session, chapters_map, series_cache, img, successful,
                 failed_count, archives, summary, returned, imgCall, call>>

\* download_chapter from fetch_chapter_data to the start of _download_images:
\* the payload is checked, _get_series_title reads the series cache, the urls
\* are built, one download_task per url is created and the first of them
\* enter the chapter's image semaphore
fetch_chapter(c) ==
  /\ chPc[c] = "fetch"
  /\ \E ok \in ChapterOutcomes, chapter_json \in ChapterPayloads(srv.pages),
        iok \in InfoOutcomes \cap srv.meta_outcomes, idata \in SeriesPayloads :
       LET urls == chapter_urls(chapter_json) IN
       IF ok /\ IsSome(urls)
       THEN /\ series_cache' = Some(fetch_series_info(series_cache, iok, idata))
            /\ chUrls' = [chUrls EXCEPT ![c] = The(urls)]
            /\ img' = [img EXCEPT ![c] =
                         admit([i \in 1..Len(The(urls)) |-> "waiting"])]
            /\ chPc' = [chPc EXCEPT ![c] = "images"]
            /\ chFetch' = [chFetch EXCEPT ![c] = Fetched(The(chVolume[c]), TRUE)]
            /\ UNCHANGED <<tmp, results, chVolume, chCand, chBf>>
       ELSE /\ download_chapter_except(c)
            /\ UNCHANGED <<series_cache, img>>
  /\ UNCHANGED <<cfg, srv, pc, session, chapters_map, successful, failed_count,
                 archives, summary, returned, imgCall, call>>

(* ---------------------- the end of an image task ---------------------- *)
\* variant: the file is numbered by the order in which the downloads end
write_image_in_completion_order(dir, idx) ==
  LET files == IF IsSome(dir) THEN The(dir) ELSE {}
  IN  Some(files \cup {image_filename(Cardinality(files) + 1)})
\* dest.parent.mkdir(parents=True, exist_ok=True); dest.write_bytes(data)
write_image(dir, idx) ==
  Some((IF IsSome(dir) THEN The(dir) ELSE {}) \cup {image_filename(idx)})

\* how a download_task ends: it returned or raised into the gather of its
\* chapter; once download_chapter itself has returned nobody awaits the task
\* and it is just over
task_end(c, out) ==
  IF chPc[c] # "images" THEN "over"
  ELSE IF out.outcome = "return" THEN "returned" ELSE "raised"

\* api.download_image(url, tmp_dir / filename) ends and the task leaves the
\* semaphore, which lets the next waiting task in
download_task_finish(c, i) ==
  /\ i \in 1..Len(img[c])
  /\ img[c][i] = "running"
  /\ \E out \in ImageOutcomes :
       /\ tmp' = IF out.wrote THEN [tmp EXCEPT ![c] = write_image(tmp[c], i)]
                 ELSE tmp
       /\ img' = [img EXCEPT ![c] = admit([img[c] EXCEPT ![i] = task_end(c, out)])]
  /\ UNCHANGED <<cfg, srv, pc, session, chapters_map, series_cache, chPc, chVolume,
                 chCand, chBf, chUrls, chFetch, results, successful, failed_count,
                 archives, summary, returned, imgCall, call>>

\* the gather of _download_images returns: ChapterInfo, return tmp_dir, info
chapter_success(c) ==
  /\ chPc[c] = "images"
  /\ \A i \in 1..Len(img[c]) : img[c][i] = "returned"
  /\ results' = [results EXCEPT ![c] =
                   ROk(c, ChapterInfo(c, The(chVolume[c]), Len(chUrls[c])))]
  /\ chPc' = [chPc EXCEPT ![c] = "done"]
  /\ img' = [img EXCEPT ![c] = <<>>]
  /\ chCand' = return_chCand(c)
  /\ chBf' = return_chBf(c)
  /\ chUrls' = return_chUrls(c)
  /\ chFetch' = return_chFetch(c)
  /\ UNCHANGED <<cfg, srv, pc, session, chapters_map, series_cache, chVolume, tmp,
                 successful, failed_count, archives, summary, returned, imgCall, call>>

\* the gather of _download_images raises the exception of a download_task;
\* the other download_tasks of the chapter keep running
chapter_images_fail(c) ==
  /\ chPc[c] = "images"
  /\ \E i \in 1..Len(img[c]) : img[c][i] = "raised"
  /\ download_chapter_except(c)
  /\ img' = [img EXCEPT ![c] =
               [i \in 1..Len(img[c]) |->
                  IF img[c][i] \in {"returned", "raised"} THEN "over" ELSE img[c][i]]]
  /\ UNCHANGED <<cfg, srv, pc, session, chapters_map, series_cache, successful,
                 failed_count, archives, summary, returned, imgCall, call>>

(* --------------------- download_chapters: the end ---------------------- *)
\* the download_tasks of failed chapters that are still running when the
\* session is closed: their requests fail, they write nothing more
tasks_after_close == [c \in Chapters |-> <<>>]

\* asyncio.gather has every result; leaving "async with" closes the session
aexit ==
  /\ pc = "gather"
  /\ \A c \in Chapters : chPc[c] = "done"
  /\ session' = "closed"
  /\ pc' = "process"
  /\ img' = tasks_after_close
  /\ UNCHANGED <<cfg, srv, chapters_map, series_cache, chPc, chVolume, chCand, chBf,
                 chUrls, chFetch, tmp, results, successful, failed_count, archives,
                 summary, returned, imgCall, call>>

\* _process_results over the chapters k.. of the range
RECURSIVE process_results_from(_, _, _)
process_results_from(res, k, acc) ==
  IF k > ChapterStart + NumChapters - 1 THEN acc
  ELSE IF res[k].kind = "exception"
  THEN process_results_from(res, k + 1,
         [acc EXCEPT !.failed_count = acc.failed_count + 1])
  ELSE IF res[k].kind = "ok"
  THEN process_results_from(res, k + 1,
         [acc EXCEPT !.successful = Append(acc.successful, res[k])])
  ELSE process_results_from(res, k + 1, acc)

\* variant: the first chapter of the range is left out of the results
process_results_skip_first(res) ==
  process_results_from(res, ChapterStart + 1,
                       [successful |-> <<>>, failed_count |-> 0])

process_results(res) ==
  process_results_from(res, ChapterStart, [successful |-> <<>>, failed_count |-> 0])

\* successful, failed_count = _process_results(...); if not successful: return []
process ==
  /\ pc = "process"
  /\ LET r == process_results(results) IN
       /\ successful' = r.successful
       /\ failed_count' = r.failed_count
       /\ IF r.successful = <<>>
          THEN returned' = Some(<<>>) /\ pc' = "done"
          ELSE UNCHANGED returned /\ pc' = "cover"
  /\ UNCHANGED <<cfg, srv, session, chapters_map, series_cache, chPc, chVolume, chCand,
                 chBf, chUrls, chFetch, img, tmp, results, archives, summary,
                 imgCall, call>>

\* _create_series_archive to _download_series_cover: each cover download is
\* tried, a failure is logged and skipped
download_series_cover ==
  /\ pc = "cover"
  /\ pc' = "assemble"
  /\ UNCHANGED <<cfg, srv, session, chapters_map, series_cache, chPc, chVolume, chCand,
                 chBf, chUrls, chFetch, img, tmp, results, successful, failed_count,
                 archives, summary, returned, imgCall, call>>

\* variant: the volume folder is named after the chapter number
process_volumes_by_number(succ, dirs) ==
  { [folder |-> volume_folder(succ[k].info.number),
     cbz |-> chapter_cbz(succ[k].info.number),
     images |-> The(dirs[succ[k].tmp_dir])] : k \in 1..Len(succ) }

\* _process_volumes: one container per (tmp_dir, info), at
\* "Volume {volume:02d}" / "Chapter {number:03d}.cbz", holding the files of
\* tmp_dir (create_cbz)
process_volumes(succ, dirs) ==
  { [folder |-> volume_folder(succ[k].info.volume),
     cbz |-> chapter_cbz(succ[k].info.number),
     images |-> The(dirs[succ[k].tmp_dir])] : k \in 1..Len(succ) }

\* _cleanup: the staging directories of the successful chapters are removed
cleanup(succ, dirs) ==
  IF ~cfg.cleanup_temp THEN dirs
  ELSE [c \in Chapters |->
          IF \E k \in 1..Len(succ) : succ[k].tmp_dir = c THEN Nothing ELSE dirs[c]]

\* the rest of _create_series_archive, _print_summary and the return
create_series_archive ==
  /\ pc = "assemble"
  /\ archives' = Append(archives, process_volumes(successful, tmp))
  /\ tmp' = cleanup(successful, tmp)
  /\ summary' = Some([completed |-> Len(successful), total |-> NumChapters,
                      failed |-> failed_count])
  /\ returned' = Some(<<"zip_path">>)
  /\ pc' = "done"
  /\ UNCHANGED <<cfg, srv, session, chapters_map, series_cache, chPc, chVolume, chCand,
                 chBf, chUrls, chFetch, img, results, successful, failed_count,
                 imgCall, call>>

Next ==
  \/ aenter
  \/ prefetch_chapters_list
  \/ prefetch_series_info
  \/ \E c \in Chapters : download_with_limit(c)
  \/ \E c \in Chapters : resolve_validate(c)
  \/ \E c \in Chapters : bruteforce_volume(c)
  \/ \E c \in Chapters : fetch_chapter(c)
  \/ \E c \in Chapters, i \in 1..MaxPages : download_task_finish(c, i)
  \/ \E c \in Chapters : chapter_success(c)
  \/ \E c \in Chapters : chapter_images_fail(c)
  \/ aexit
  \/ process
  \/ download_series_cover
  \/ create_series_archive

Spec == Init /\ [][Next]_vars

(* ------------------ one download_image call on its own ----------------- *)
\* the call is made with any responses to its attempts
InitImage ==
  /\ cfg = [volume_override |-> Nothing, cleanup_temp |-> TRUE,
            max_concurrent_images |-> max_concurrent_images]
  /\ srv = [pages |-> MaxPages, meta_outcomes |-> {TRUE, FALSE}]
  /\ InitRun
  /\ \E rs \in Patterns(ImageResponses, ImageRetries), ws \in WarmPatterns :
       imgCall = [phase |-> "called", rs |-> rs, ws |-> ws]
  /\ call = [phase |-> "idle"]

\* download_image(url, dest) runs to its end: dest holds the body it wrote
download_image_call ==
  /\ imgCall.phase = "called"
  /\ LET out == download_image(imgCall.rs, imgCall.ws, ImageRetries) IN
       imgCall' = [phase |-> "done", rs |-> imgCall.rs, ws |-> imgCall.ws,
                   out |-> out,
                   dest |-> IF out.wrote THEN "body" ELSE "absent"]
  /\ UNCHANGED <<cfg, srv, pc, session, chapters_map, series_cache, chPc, chVolume,
                 chCand, chBf, chUrls, chFetch, img, tmp, results, successful,
                 failed_count, archives, summary, returned, call>>

NextImage == download_image_call

SpecImage == InitImage /\ [][NextImage]_vars

(* ------------------- one resolve_volume call on its own ---------------- *)
\* a request the client issues: the chapters listing, the series metadata, or
\* the chapter detail of a volume (volume is 0 for the first two)
Request(endpoint, volume) == [endpoint |-> endpoint, volume |-> volume]

\* variant: the loop steps over every other volume of the range
next_volume_skipping(volume) == volume + 2
\* for volume in range(start, end + 1): the volume after volume
next_volume(volume) == volume + 1

\* ValueError(f"Could not determine volume for chapter {chapter_num}")
CouldNotDetermine(chapter_num) == [type |-> "ValueError", chapter |-> chapter_num]

\* how resolve_volume ends: it returns volume or raises error, having issued
\* requests; tried are the volumes _bruteforce_volume has fetched, and the two
\* caches are as the call leaves them
Resolved(volume, requests, tried, cmap, info) ==
  [kind |-> "return", volume |-> volume, error |-> Nothing,
   requests |-> requests, tried |-> tried, chapters_map |-> cmap,
   series_cache |-> info]
Unresolved(error, requests, tried, cmap, info) ==
  [kind |-> "raise", volume |-> 0, error |-> Some(error),
   requests |-> requests, tried |-> tried, chapters_map |-> cmap,
   series_cache |-> info]

\* _bruteforce_volume from volume on: oks[v] tells whether
\* fetch_chapter_data(slug, chapter_num, v) returns
RECURSIVE bruteforce_volume_from(_, _, _, _, _, _, _, _)
bruteforce_volume_from(chapter_num, volume, fallback_end, oks, requests, tried, cmap, info) ==
  IF volume > fallback_end
  THEN Unresolved(CouldNotDetermine(chapter_num), requests, tried, cmap, info)
  ELSE LET made == Append(requests, Request("chapter", volume))
           seen == Append(tried, volume)
       IN  IF oks[volume] THEN Resolved(volume, made, seen, cmap, info)
           ELSE bruteforce_volume_from(chapter_num, next_volume(volume), fallback_end,
                                       oks, made, seen, cmap, info)

\* variant: an override of 0 counts as no override
override_set_if_truthy(volume_override) ==
  IsSome(volume_override) /\ The(volume_override) # 0
\* self.cfg.volume_override is not None
override_set(volume_override) == IsSome(volume_override)

\* variant: the cached chapter map is never consulted
map_hit_never(cmap, target_chapter) == FALSE
\* chapters_map and target_chapter in chapters_map
map_hit(cmap, target_chapter) ==
  cmap # EmptyMap /\ target_chapter \in DOMAIN cmap

\* resolve_volume(slug, chapter_num) with the two caches as given; net holds
\* what the network answers: how the chapters-list and series calls end and
\* with which body, whether the validating chapter-detail fetch returns, and
\* oks for the fetches of brute force
resolve_volume(volume_override, map_cache, info_cache, chapter_num, fallback_start, fallback_end, net) ==
  IF override_set(volume_override)
  THEN Resolved(The(volume_override), <<>>, <<>>, map_cache, info_cache)
  ELSE
  LET cmap == fetch_chapters_list(map_cache, net.list_ok, net.listing)
      r1 == IF IsSome(map_cache) THEN <<>> ELSE <<Request("chapters", 0)>>
      target_chapter == FloatOfInt(chapter_num)
  IN  IF map_hit(cmap, target_chapter)
      THEN Resolved(cmap[target_chapter], r1, <<>>, Some(cmap), info_cache)
      ELSE
      LET series_info == fetch_series_info(info_cache, net.info_ok, net.series)
          r2 == IF IsSome(info_cache) THEN r1
                ELSE Append(r1, Request("series", 0))
          detected_volume == search_volume_in_metadata(series_info, target_chapter)
          r3 == IF IsSome(detected_volume)
                THEN Append(r2, Request("chapter", The(detected_volume))) ELSE r2
      IN  IF IsSome(detected_volume) /\ net.validate_ok
          THEN Resolved(The(detected_volume), r3, <<>>, Some(cmap), Some(series_info))
          ELSE bruteforce_volume_from(chapter_num, fallback_start, fallback_end,
                                      net.oks, r3, <<>>, Some(cmap), Some(series_info))

\* the state of every variable of the run while a single function is called
NoRun ==
  /\ cfg = [volume_override |-> Nothing, cleanup_temp |-> TRUE,
            max_concurrent_images |-> max_concurrent_images]
  /\ srv = [pages |-> MaxPages, meta_outcomes |-> {TRUE, FALSE}]
  /\ InitRun
  /\ imgCall = [phase |-> "idle"]

\* cfg.volume_override, and the cached entries of the slug: absent, empty, or
\* what an earlier call stored
Overrides == {Nothing, Some(0), Some(FallbackEnd)}
MapCaches ==
  {Nothing, Some(EmptyMap)} \cup {Some(chapters_mapping(TRUE, l)) : l \in Listings}
InfoCaches ==
  {Nothing, Some(JDict(<<>>))} \cup {Some(series_result(TRUE, s)) : s \in SeriesPayloads}

InitResolve ==
  /\ NoRun
  /\ \E volume_override \in Overrides, map_cache \in MapCaches,
        info_cache \in InfoCaches, chapter_num \in Chapters,
        fallback_end \in (FallbackStart - 1)..FallbackEnd,
        list_ok \in ListOutcomes, listing \in Listings,
        info_ok \in InfoOutcomes, series \in SeriesPayloads,
        validate_ok \in ChapterOutcomes,
        oks \in [FallbackStart..FallbackEnd -> ChapterOutcomes] :
       call = [fn |-> "resolve_volume", phase |-> "called",
               args |-> [volume_override |-> volume_override,
                         map_cache |-> map_cache, info_cache |-> info_cache,
                         chapter_num |-> chapter_num,
                         fallback_start |-> FallbackStart,
                         fallback_end |-> fallback_end,
                         net |-> [list_ok |-> list_ok, listing |-> listing,
                                  info_ok |-> info_ok, series |-> series,
                                  validate_ok |-> validate_ok, oks |-> oks]]]

UnchangedRun ==
  UNCHANGED <<cfg, srv, pc, session, chapters_map, series_cache, chPc, chVolume,
              chCand, chBf, chUrls, chFetch, img, tmp, results, successful,
              failed_count, archives, summary, returned, imgCall>>

resolve_volume_call ==
  /\ call.phase = "called"
  /\ call.fn = "resolve_volume"
  /\ LET a == call.args IN
       call' = [fn |-> call.fn, phase |-> "done", args |-> a,
                out |-> resolve_volume(a.volume_override, a.map_cache, a.info_cache,
                                       a.chapter_num, a.fallback_start,
                                       a.fallback_end, a.net)]
  /\ UnchangedRun

SpecResolve == InitResolve /\ [][resolve_volume_call]_vars

(* --------------------- one _get_json call on its own ------------------- *)
\* the default of the retries parameter of _get_json
DefaultRetries == 5
\* the retries a _get_json call is made with
JsonRetries == {InfoRetries, ListRetries, ChapterRetries, DefaultRetries}

\* any response to each attempt
InitJson ==
  /\ NoRun
  /\ \E retries \in JsonRetries :
       \E rs \in [1..retries -> JsonResponses] :
          call = [fn |-> "_get_json", phase |-> "called",
                  args |-> [rs |-> rs, retries |-> retries]]

get_json_call ==
  /\ call.phase = "called"
  /\ call.fn = "_get_json"
  /\ call' = [fn |-> call.fn, phase |-> "done", args |-> call.args,
              out |-> get_json(call.args.rs, call.args.retries)]
  /\ UnchangedRun

SpecJson == InitJson /\ [][get_json_call]_vars

(* ---------------- one _calculate_retry_delay call on its own ----------- *)
\* the characters str.isdigit accepts: the decimal digits and the other
\* characters of numeric type Digit, of which the superscript two stands here
SuperscriptTwo == "sup2"
IsDigitChar(c) == IsDigit(c) \/ c = SuperscriptTwo
\* str.isdigit(): at least one character, all of them digit characters
str_isdigit(s) == Len(s) > 0 /\ \A k \in 1..Len(s) : IsDigitChar(s[k])

\* _calculate_retry_delay(headers, attempt): retry_after is
\* headers.get("Retry-After"), Nothing when the header is absent; the delay is
\* in tenths of a second; float(retry_after) raises ValueError on a string
\* that is not a decimal number
calculate_retry_delay(retry_after, attempt) ==
  IF IsSome(retry_after) /\ Len(The(retry_after)) > 0 /\ str_isdigit(The(retry_after))
  THEN LET f == PyFloat(The(retry_after)) IN
       IF IsSome(f) THEN [kind |-> "return", tenths |-> 10 * The(f).i + 10]
       ELSE [kind |-> "raise", tenths |-> 0]
  ELSE LET backoff == IF 2 ^ attempt < 60 THEN 2 ^ attempt ELSE 60
       IN  [kind |-> "return", tenths |-> 10 * backoff + attempt]

\* the characters of the Retry-After values tried, and the values
HeaderChars == {"0", "5", SuperscriptTwo, "-", "x"}
HeaderValues ==
  {<<>>} \cup {<<a>> : a \in HeaderChars} \cup {<<a, b>> : a, b \in HeaderChars}

\* any attempt of a loop of the client, with or without the header
InitDelay ==
  /\ NoRun
  /\ \E retry_after \in {Nothing} \cup {Some(h) : h \in HeaderValues},
        attempt \in 0..(ImageRetries - 1) :
       call = [fn |-> "_calculate_retry_delay", phase |-> "called",
               args |-> [retry_after |-> retry_after, attempt |-> attempt]]

calculate_retry_delay_call ==
  /\ call.phase = "called"
  /\ call.fn = "_calculate_retry_delay"
  /\ call' = [fn |-> call.fn, phase |-> "done", args |-> call.args,
              out |-> calculate_retry_delay(call.args.retry_after, call.args.attempt)]
  /\ UnchangedRun

SpecDelay == InitDelay /\ [][calculate_retry_delay_call]_vars

(* -------------------- one build_image_url call on its own -------------- *)
\* the page paths tried: absolute, protocol-relative, host-relative with and
\* without a leading slash, each followed by one or two segments
Https == <<"h", "t", "t", "p", "s", ":">>
Http == <<"h", "t", "t", "p", ":">>
PathPrefixes ==
  {<<>>, <<"/">>, <<"/", "/">>, Https \o <<"/", "/">>, Http \o <<"/", "/">>}
PathSegments == {"c", "x", "p"}
PathRests ==
  {<<a>> : a \in PathSegments} \cup {<<a, "/", b>> : a, b \in PathSegments}
ImagePaths == {pre \o rest : pre \in PathPrefixes, rest \in PathRests}

InitUrl ==
  /\ NoRun
  /\ \E path \in ImagePaths :
       call = [fn |-> "build_image_url", phase |-> "called",
               args |-> [path |-> path, host |-> ImageHost]]

build_image_url_call ==
  /\ call.phase = "called"
  /\ call.fn = "build_image_url"
  /\ call' = [fn |-> call.fn, phase |-> "done", args |-> call.args,
              out |-> build_image_url(JStr(call.args.path), call.args.host)]
  /\ UnchangedRun

SpecUrl == InitUrl /\ [][build_image_url_call]_vars

(* ------------- fetch_chapters_list over one chapters listing ----------- *)
\* the records of a listing: well formed (chapter, volume) ...
ListingRecord(number, volume) ==
  JDict(<<KV("number", number), KV("volume", volume)>>)
WellFormedRecords ==
  { ListingRecord(JStr(IntToStr(Ch(0))), JStr(<<"1">>)),
    ListingRecord(JInt(Ch(1)), JInt(2)) }
\* ... or malformed: no volume, a chapter number or a volume that is not a
\* number, a record that is null or a string
MalformedRecords ==
  { JDict(<<KV("number", JStr(IntToStr(Ch(0))))>>),
    ListingRecord(JStr(<<"x">>), JInt(1)),
    ListingRecord(JStr(IntToStr(Ch(1))), JStr(<<"x">>)),
    JNone,
    JStr(<<"x">>) }
ListingRecords == WellFormedRecords \cup MalformedRecords
\* the longest listing tried
MaxRecords == 3
RecordLists ==
  UNION { [1..n -> ListingRecords] : n \in 1..MaxRecords }

\* the slug is not cached and the request for the listing succeeds
InitListing ==
  /\ NoRun
  /\ \E records \in RecordLists :
       call = [fn |-> "fetch_chapters_list", phase |-> "called",
               args |-> [records |-> records]]

fetch_chapters_list_call ==
  /\ call.phase = "called"
  /\ call.fn = "fetch_chapters_list"
  /\ call' = [fn |-> call.fn, phase |-> "done", args |-> call.args,
              out |-> fetch_chapters_list(Nothing, TRUE,
                        JDict(<<KV("data", JList(call.args.records))>>))]
  /\ UnchangedRun

SpecListing == InitListing /\ [][fetch_chapters_list_call]_vars

(* ------------ concurrent fetch_chapters_list calls for a slug ---------- *)
\* number of tasks that call fetch_chapters_list(slug) on one client
NumCallers == 3
Callers == 1..NumCallers
\* the listings the server may hold during the calls
ServerListings ==
  { JDict(<<KV("data", JList(records))>>) :
      records \in UNION { [1..n -> WellFormedRecords] : n \in 1..2 } }

\* the slug is not cached, no call has been made yet
InitCache ==
  /\ NoRun
  /\ \E listing \in ServerListings :
       call = [fn |-> "fetch_chapters_list", phase |-> "concurrent",
               listing |-> listing,
               callers |-> [i \in Callers |-> [at |-> "start", returned |-> Nothing]]]

UnchangedButCache ==
  UNCHANGED <<cfg, srv, pc, session, series_cache, chPc, chVolume, chCand, chBf,
              chUrls, chFetch, img, tmp, results, successful, failed_count,
              archives, summary, returned, imgCall>>

\* if slug in self._chapters_map: return self._chapters_map[slug]; else the
\* caller awaits _get_json
fetch_chapters_list_enter(i) ==
  /\ call.phase = "concurrent"
  /\ call.callers[i].at = "start"
  /\ call' = [call EXCEPT !.callers[i] =
                IF IsSome(chapters_map)
                THEN [at |-> "done", returned |-> chapters_map]
                ELSE [at |-> "get_json", returned |-> Nothing]]
  /\ UNCHANGED chapters_map
  /\ UnchangedButCache

\* _get_json returns or raises; the mapping is built (empty after an
\* exception), stored under the slug and returned
fetch_chapters_list_store(i) ==
  /\ call.phase = "concurrent"
  /\ call.callers[i].at = "get_json"
  /\ \E ok \in ListOutcomes :
       LET mapping == chapters_mapping(ok, call.listing) IN
       /\ chapters_map' = Some(mapping)
       /\ call' = [call EXCEPT !.callers[i] =
                     [at |-> "done", returned |-> Some(mapping)]]
  /\ UnchangedButCache

NextCache ==
  \/ \E i \in Callers : fetch_chapters_list_enter(i)
  \/ \E i \in Callers : fetch_chapters_list_store(i)

SpecCache == InitCache /\ [][NextCache]_vars

(* ------------------- _download_images of one chapter ------------------- *)
\* download_chapter(chapter_num) has reached _download_images with the urls
\* of MaxPages pages, under any max_concurrent_images up to that number; the
\* other chapters of the range have ended without a result; the run goes on
\* to its end
InitImages ==
  /\ \E limit \in 1..MaxPages :
       cfg = [volume_override |-> Some(FallbackEnd), cleanup_temp |-> TRUE,
              max_concurrent_images |-> limit]
  /\ srv = [pages |-> MaxPages, meta_outcomes |-> {TRUE}]
  /\ pc = "gather"
  /\ session = "open"
  /\ \E l \in Listings : chapters_map = Some(chapters_mapping(TRUE, l))
  /\ \E s \in SeriesPayloads : series_cache = Some(series_result(TRUE, s))
  /\ \E chapter_num \in Chapters :
       LET urls == The(chapter_urls(PagesPayload(MaxPages)))
           here(x, other) == [c \in Chapters |-> IF c = chapter_num THEN x ELSE other]
       IN  /\ chPc = here("images", "done")
           /\ chVolume = here(cfg.volume_override, Nothing)
           /\ chUrls = here(urls, <<>>)
           /\ chFetch = here(Fetched(FallbackEnd, TRUE), Nothing)
           /\ img = here(admit([i \in 1..Len(urls) |-> "waiting"]), <<>>)
           /\ tmp = here(Some({}), Nothing)
           /\ results = here(Pending, RNone)
  /\ chCand = [c \in Chapters |-> Nothing]
  /\ chBf = [c \in Chapters |-> FallbackStart]
  /\ successful = <<>>
  /\ failed_count = 0
  /\ archives = <<>>
  /\ summary = Nothing
  /\ returned = Nothing
  /\ imgCall = [phase |-> "idle"]
  /\ call = [phase |-> "idle"]

NextImages ==
  \/ \E c \in Chapters, i \in 1..MaxPages : download_task_finish(c, i)
  \/ \E c \in Chapters : chapter_success(c)
  \/ \E c \in Chapters : chapter_images_fail(c)
  \/ aexit
  \/ process
  \/ download_series_cover
  \/ create_series_archive

SpecImages == InitImages /\ [][NextImages]_vars

(* ------------------ ChapterDownloader._download_series_cover ----------- *)
\* cover = series_meta.get("cover", {});
\* cover_url = cover.get("default") if isinstance(cover, dict) else cover
cover_url(series_meta) ==
  LET cover == GetD(series_meta, "cover", JDict(<<>>))
  IN  IF cover.t = "dict" THEN Get(cover, "default") ELSE cover

cover_names ==
  <<"Series Cover.jpg", "cover.jpg", "folder.jpg", "poster.jpg", "thumbnail.jpg">>

\* the api.download_image(cover_url, series_folder / name) calls of
\* _download_series_cover: none without a cover URL, else one per name, each
\* of them starting with a GET on the client's session
cover_downloads(series_meta) ==
  IF ~Truthy(cover_url(series_meta)) THEN <<>>
  ELSE [k \in 1..Len(cover_names) |->
          [url |-> cover_url(series_meta), dest |-> cover_names[k]]]

(* ----------------------- the run under a scheduler --------------------- *)
\* the runs followed to their end: a whole run over one-page chapters whose
\* volumes are resolved against flaky metadata endpoints, and the rest of a
\* run from the _download_images call of a chapter of MaxPages pages
InitFair ==
  \/ Init /\ cfg.volume_override = Nothing /\ cfg.cleanup_temp
  \/ InitImages

\* asyncio runs a task that can go on, and every request of the run gets a
\* response or an error: a step that is possible is eventually taken
FairSpec == InitFair /\ [][Next]_vars /\ WF_vars(Next)

(* ------------------------------ properties ----------------------------- *)
Succeeded == {c \in Chapters : results[c].kind = "ok"}
GatherOver == pc \in {"process", "cover", "assemble", "done"}

\* C1: the failure of a chapter (None from download_chapter's except clause,
\* or an exception captured by gather) changes nothing of any other chapter:
\* not its task, its result, its image tasks or its staging directory; and
\* when gather is over every chapter has its own outcome
C1_FailureIsolated ==
  /\ [](GatherOver => \A c \in Chapters : results[c] # Pending)
  /\ [][\A c \in Chapters :
          (results[c] = Pending /\ results'[c] \in {RNone, RException}) =>
             \A d \in Chapters \ {c} :
                /\ chPc'[d] = chPc[d]
                /\ results'[d] = results[d]
                /\ img'[d] = img[d]
                /\ tmp'[d] = tmp[d]]_vars

\* a chapter has failed and a later chapter of the range has succeeded
C1_Witness ==
  \E c, d \in Chapters : c < d /\ results[c] = RNone /\ results[d].kind = "ok"

\* C2: in the final summary, succeeded + failed = number of chapters requested
C2_SummaryCountsAddUp ==
  (pc = "done" /\ IsSome(summary)) =>
     The(summary).completed + The(summary).failed = NumChapters

\* C3: download_image returns normally only if it has written the body of a
\* successful response to dest
C3_ReturnsOnlyAfterWrite ==
  (imgCall.phase = "done" /\ imgCall.out.outcome = "return") =>
     imgCall.dest = "body"

\* C4: a chapter with a ChapterInfo has, until packaging, as many staged image
\* files as its ChapterInfo counts pages
C4_SuccessMeansAllStaged ==
  \A c \in Chapters :
     (results[c].kind = "ok" /\ pc # "done") =>
        /\ IsSome(tmp[c])
        /\ Cardinality(The(tmp[c])) = results[c].info.pages_count

\* C5: at most max_concurrent_chapters chapter tasks are inside
\* download_chapter at any moment
C5_ChaptersInFlightBounded ==
  Cardinality(InFlightChapters) <= max_concurrent_chapters

\* the limit is reached while a chapter of the range waits for a slot
C5_Witness ==
  /\ Cardinality(InFlightChapters) = max_concurrent_chapters
  /\ \E c \in Chapters : chPc[c] = "pending"

\* C6: for each chapter, at most max_concurrent_images of its image
\* downloads are in flight at any moment
C6_ImagesInFlightBounded ==
  \A c \in Chapters : Cardinality(InFlightImages(c)) <= cfg.max_concurrent_images

\* the limit of a chapter is reached while another of its images waits
C6_Witness ==
  \E c \in Chapters :
     /\ Cardinality(InFlightImages(c)) = cfg.max_concurrent_images
     /\ \E i \in 1..Len(img[c]) : img[c][i] = "waiting"

\* C7: with cleanup enabled, no chapter staging directory exists when
\* download_chapters has finished
C7_NoStagingLeft ==
  (pc = "done" /\ cfg.cleanup_temp) => \A c \in Chapters : tmp[c] = Nothing

\* C8: when download_chapters has finished: no archive and an empty result if
\* no chapter succeeded, else exactly one archive, returned, whose containers
\* are those of exactly the successful chapters
C8_ArchiveOfSuccessful ==
  pc = "done" =>
     IF Succeeded = {}
     THEN archives = <<>> /\ returned = Some(<<>>)
     ELSE /\ Len(archives) = 1
          /\ Len(The(returned)) = 1
          /\ {x.cbz : x \in archives[1]} = {chapter_cbz(c) : c \in Succeeded}

\* the run has ended with an archive although a chapter of the range failed
C8_Witness ==
  /\ pc = "done"
  /\ Len(archives) = 1
  /\ \E c \in Chapters : results[c] = RNone

\* C9: the archive holds exactly one container for each successful chapter,
\* under the folder of the volume resolve_volume returned for it, and no
\* container for a chapter that failed
C9_ContainersUnderVolume ==
  (pc = "done" /\ archives # <<>>) =>
     \A c \in Chapters :
        LET mine == {x \in archives[1] : x.cbz = chapter_cbz(c)} IN
        IF c \in Succeeded
        THEN /\ Cardinality(mine) = 1
             /\ \A x \in mine : x.folder = volume_folder(The(chVolume[c]))
        ELSE mine = {}

\* the archive holds two containers under two different volume folders
C9_Witness ==
  /\ pc = "done"
  /\ archives # <<>>
  /\ \E x, y \in archives[1] : x.folder # y.folder

\* C10 as stated: once the validating fetch of the candidate has failed,
\* resolve_volume never returns the candidate
C10_NeverReturnsCandidate ==
  [][\A c \in Chapters :
       (chPc[c] = "brute" /\ IsSome(chCand[c]) /\ IsSome(chVolume'[c])) =>
          chVolume'[c] # chCand[c]]_vars

\* C10 amended: a failed validating fetch never makes resolve_volume return:
\* brute force follows, and brute force returns only the volume whose own
\* chapter-detail fetch has just succeeded
C10_FailedValidationGoesToBruteForce ==
  [][\A c \in Chapters :
       /\ (chPc[c] = "validate" /\ chFetch'[c] = Fetched(The(chCand[c]), FALSE)) =>
             (chPc'[c] = "brute" /\ chVolume'[c] = Nothing
              /\ chBf'[c] = FallbackStart)
       /\ (chPc[c] = "brute" /\ IsSome(chVolume'[c])) =>
             chFetch'[c] = Fetched(The(chVolume'[c]), TRUE)]_vars

\* brute force runs for a chapter whose candidate failed its validating fetch
C10_Witness ==
  \E c \in Chapters :
     /\ chPc[c] = "brute"
     /\ IsSome(chCand[c])
     /\ chBf[c] > FallbackStart

\* a resolve_volume call that has ended, and one that went to brute force
ResolveDone == call.phase = "done" /\ call.fn = "resolve_volume"
WentToBruteForce ==
  /\ ResolveDone
  /\ ~IsSome(call.args.volume_override)
  /\ \/ call.out.tried # <<>>
     \/ call.out.kind = "raise"
\* the volumes from first to last, ascending
Ascending(first, last) == [k \in 1..(last - first + 1) |-> first + k - 1]

\* C11: brute force fetches the volumes of the configured range in ascending
\* order, one fetch each, and returns the first volume whose fetch succeeds
\* without fetching a later one; when no volume of the range succeeds (an
\* empty range included) it raises an error that names the chapter
C11_BruteForceFirstSuccess ==
  WentToBruteForce =>
     LET a == call.args
         range == a.fallback_start .. a.fallback_end
         good == {v \in range : a.net.oks[v]}
     IN  IF good # {}
         THEN LET first == CHOOSE v \in good : \A w \in good : v <= w IN
              /\ call.out.kind = "return"
              /\ call.out.volume = first
              /\ call.out.tried = Ascending(a.fallback_start, first)
         ELSE /\ call.out.kind = "raise"
              /\ call.out.error = Some(CouldNotDetermine(a.chapter_num))
              /\ call.out.tried = Ascending(a.fallback_start, a.fallback_end)

\* brute force has returned a volume after the fetch of an earlier one failed
C11_Witness ==
  /\ WentToBruteForce
  /\ call.out.kind = "return"
  /\ call.out.volume > call.args.fallback_start
  /\ Len(call.out.tried) > 1

\* C12: when the chapter number is a key of the cached chapter map of the
\* slug, resolve_volume returns the mapped volume and issues no request
C12_CachedChapterNeedsNoFetch ==
  (/\ ResolveDone
   /\ ~IsSome(call.args.volume_override)
   /\ IsSome(call.args.map_cache)
   /\ FloatOfInt(call.args.chapter_num) \in DOMAIN The(call.args.map_cache)) =>
     /\ call.out.kind = "return"
     /\ call.out.volume = The(call.args.map_cache)[FloatOfInt(call.args.chapter_num)]
     /\ call.out.requests = <<>>

\* the chapter was in the cached map while the series metadata was not cached
C12_Witness ==
  /\ ResolveDone
  /\ ~IsSome(call.args.volume_override)
  /\ IsSome(call.args.map_cache)
  /\ FloatOfInt(call.args.chapter_num) \in DOMAIN The(call.args.map_cache)
  /\ call.args.info_cache = Nothing
  /\ call.out.kind = "return"

\* C13: with a volume override configured, resolve_volume returns the override
\* for every chapter and issues no request, whatever the caches hold, and
\* leaves the caches as they were
C13_OverrideNeedsNoRequest ==
  (ResolveDone /\ IsSome(call.args.volume_override)) =>
     /\ call.out.kind = "return"
     /\ call.out.volume = The(call.args.volume_override)
     /\ call.out.requests = <<>>
     /\ call.out.chapters_map = call.args.map_cache
     /\ call.out.series_cache = call.args.info_cache

\* the override was returned while neither cache held the slug
C13_Witness ==
  /\ ResolveDone
  /\ IsSome(call.args.volume_override)
  /\ call.args.map_cache = Nothing
  /\ call.args.info_cache = Nothing
  /\ call.out.volume = The(call.args.volume_override)

\* C14: a _get_json call issues at most retries requests whatever responses
\* it gets and then ends, either returning the body of the response to its
\* last request, a success, or raising one error
C14_GetJsonBounded ==
  (call.phase = "done" /\ call.fn = "_get_json") =>
     LET rs == call.args.rs
         out == call.out
     IN  /\ out.requests <= call.args.retries
         /\ IF out.ok
            THEN /\ out.error = None
                 /\ rs[out.requests] = "ok"
                 /\ \A k \in 1..(out.requests - 1) : rs[k] # "ok"
            ELSE /\ out.error # None
                 /\ out.requests = call.args.retries
                 /\ \A k \in 1..call.args.retries : rs[k] # "ok"

\* a call that met a 429, an error status and a transport failure has raised
C14_Witness ==
  /\ call.phase = "done"
  /\ call.fn = "_get_json"
  /\ ~call.out.ok
  /\ call.out.requests = call.args.retries
  /\ {"r429", "status", "neterr"} \subseteq
        {call.args.rs[k] : k \in 1..call.args.retries}

\* C15: the delay is Retry-After + 1.0 s when the header is a non-negative
\* integer, and min(2^a, 60) + 0.1 a s in every other case (tenths of a second)
C15_RetryDelay ==
  (call.phase = "done" /\ call.fn = "_calculate_retry_delay") =>
     LET ra == call.args.retry_after
         a == call.args.attempt
         integer == IsSome(ra) /\ Len(The(ra)) > 0 /\ AllDigits(The(ra))
     IN  /\ call.out.kind = "return"
         /\ call.out.tenths =
              IF integer THEN 10 * (NumOf(The(ra)) + 1)
              ELSE 10 * (IF 2 ^ a < 60 THEN 2 ^ a ELSE 60) + a

\* C16: build_image_url returns an absolute URL unchanged, a protocol-relative
\* path //host/path as a URL with a scheme on that host and path, and a
\* host-relative path joined to the image host by exactly one slash
C16_UrlNormalized ==
  (call.phase = "done" /\ call.fn = "build_image_url") =>
     LET path == call.args.path
         slashes == <<"/", "/">>
     IN  /\ IsSome(call.out)
         /\ IF StartsWith(path, Https \o slashes) \/ StartsWith(path, Http \o slashes)
            THEN The(call.out) = path
            ELSE IF StartsWith(path, slashes)
            THEN The(call.out) \in {Https \o path, Http \o path}
            ELSE IF StartsWith(path, <<"/">>)
            THEN The(call.out) = call.args.host \o path
            ELSE The(call.out) = call.args.host \o <<"/">> \o path

\* the image requests of a download_image call, and the place in its
\* sequence of requests of the k-th of them
ImageRequests(trace) == {p \in 1..Len(trace) : trace[p] = "img"}
ImageRequestAt(trace, k) ==
  CHOOSE p \in ImageRequests(trace) :
     Cardinality({q \in ImageRequests(trace) : q <= p}) = k

\* C17: in download_image a 403 on an attempt that is not the last is followed
\* by a warm-up request and then by the next image request; a server that
\* answers 403 to every image request makes the call raise after exactly
\* retries image requests; and a warm-up that fails changes nothing of how
\* the call ends
C17_ForbiddenWarmsUpAndRetries ==
  imgCall.phase = "done" =>
     LET rs == imgCall.rs
         trace == imgCall.out.trace
         n == Cardinality(ImageRequests(trace))
         warmed == download_image(rs, [k \in 1..ImageRetries |-> "ok"], ImageRetries)
     IN  /\ n <= ImageRetries
         /\ \A k \in 1..n :
               LET p == ImageRequestAt(trace, k) IN
               IF rs[k] = "r403" /\ k < ImageRetries
               THEN /\ p + 2 <= Len(trace)
                    /\ trace[p + 1] = "warm"
                    /\ trace[p + 2] = "img"
               ELSE p < Len(trace) => trace[p + 1] = "img"
         /\ (\A k \in 1..ImageRetries : rs[k] = "r403") =>
               /\ imgCall.out.outcome = "raise"
               /\ ~imgCall.out.wrote
               /\ n = ImageRetries
         /\ imgCall.out = warmed

\* an image answered 403 and then 200 was written although every warm-up
\* request failed
C17_Witness ==
  /\ imgCall.phase = "done"
  /\ imgCall.ws[1] = "fail"
  /\ imgCall.rs[1] = "r403"
  /\ imgCall.out.outcome = "return"
  /\ imgCall.out.wrote
  /\ \E p \in 1..Len(imgCall.out.trace) : imgCall.out.trace[p] = "warm"

\* C18: a malformed record of a chapters listing is skipped on its own: every
\* well-formed record of the listing is in the map that is stored
C18_MalformedRecordSkipped ==
  (call.phase = "done" /\ call.fn = "fetch_chapters_list") =>
     \A k \in 1..Len(call.args.records) :
        LET record == call.args.records[k] IN
        record \in WellFormedRecords =>
           LET chapter == The(parse_float(PyStr(Get(record, "number"))))
               volume == The(PyInt(Get(record, "volume")))
           IN  /\ chapter \in DOMAIN call.out
               /\ call.out[chapter] = volume

\* C19: once a mapping is stored for the slug, no call that finishes later
\* replaces it with a different mapping
C19_CacheEntryNeverReplaced ==
  [][IsSome(chapters_map) => chapters_map' = chapters_map]_vars

\* C20: whatever the order in which the image downloads of a chapter end, the
\* task of the url at position i writes the staging file numbered i with
\* three digits, and the files of two positions differ
C20_FileNumberedByPosition ==
  /\ [](\A i, j \in 1..MaxPages :
          /\ Len(image_filename(i)) = 3
          /\ NumOf(image_filename(i)) = i
          /\ i # j => image_filename(i) # image_filename(j))
  /\ [][\A c \in Chapters :
          (IsSome(tmp'[c]) /\ tmp'[c] # tmp[c]) =>
             \E i \in 1..Len(img[c]) :
                /\ img[c][i] = "running"
                /\ img'[c][i] # "running"
                /\ The(tmp'[c]) =
                     (IF IsSome(tmp[c]) THEN The(tmp[c]) ELSE {})
                        \cup {image_filename(i)}]_vars

\* the image at position 2 is staged while the download at position 1 is
\* still in flight
C20_Witness ==
  \E c \in Chapters :
     /\ Len(img[c]) >= 2
     /\ img[c][1] = "running"
     /\ img[c][2] \in {"returned", "over"}
     /\ IsSome(tmp[c])
     /\ image_filename(2) \in The(tmp[c])
     /\ image_filename(1) \notin The(tmp[c])

\* C21: every HTTP request of a run is issued while the session of the client
\* is open: the warm-up of __aenter__ on the session it has just created, the
\* prefetch, the requests of the chapter tasks and of their image tasks, and
\* the cover downloads of _download_series_cover (made when the series
\* metadata of the run has a cover URL) all happen in a step that starts, or
\* for __aenter__ ends, with the session open
C21_RequestsOnlyWhileSessionOpen ==
  [][ /\ aenter => session' = "open"
      /\ ( \/ prefetch_chapters_list
           \/ prefetch_series_info
           \/ \E c \in Chapters : resolve_validate(c)
           \/ \E c \in Chapters : bruteforce_volume(c)
           \/ \E c \in Chapters : fetch_chapter(c)
           \/ \E c \in Chapters, i \in 1..MaxPages : download_task_finish(c, i) )
         => session = "open"
      /\ (download_series_cover /\ cover_downloads(The(series_cache)) # <<>>)
         => session = "open" ]_vars

\* the download_tasks of all chapters that are inside their "async with sem",
\* those of a chapter whose download_chapter has already returned included
ImagesInFlight == {t \in Chapters \X (1..MaxPages) : t[2] \in InFlightImages(t[1])}

\* C22: the number of image downloads in flight across all chapters never
\* exceeds max_concurrent_chapters * max_concurrent_images, also after a
\* chapter has failed on one image while others of its images were downloading
C22_TotalImagesInFlightBounded ==
  Cardinality(ImagesInFlight) <= max_concurrent_chapters * cfg.max_concurrent_images

\* the entries of the successful list made for chapter c
SuccessfulOf(c) == {k \in 1..Len(successful) : successful[k].info.number = c}

\* C23: when every request eventually returns, download_chapters eventually
\* returns, and when it has returned every chapter of the range has exactly
\* one outcome: it succeeded (one (tmp_dir, info) result, once in the
\* successful list) or it failed (None or an exception, not in the list)
C23_TerminatesWithOneOutcomeEach ==
  /\ <>(pc = "done" /\ IsSome(returned))
  /\ [](pc = "done" =>
          \A c \in Chapters :
            \/ results[c].kind = "ok" /\ Cardinality(SuccessfulOf(c)) = 1
            \/ results[c].kind \in {"None", "exception"} /\ SuccessfulOf(c) = {})

\* C23: a run has returned with one chapter succeeded and the other failed
C23_Witness ==
  /\ pc = "done" /\ IsSome(returned)
  /\ \E c, d \in Chapters :
       /\ results[c].kind = "ok" /\ Cardinality(SuccessfulOf(c)) = 1
       /\ results[d].kind = "None" /\ SuccessfulOf(d) = {}

\* C24: while the chapter tasks of a run exist (from their creation to the
\* end of gather) both caches hold an entry for the slug, so every
\* fetch_chapters_list and fetch_series_info call of a chapter task returns
\* the cached value without a request, and no step of a chapter task stores
\* a newly fetched chapter map or series metadata; this also holds when the
\* prefetch failed and cached the empty map or the empty metadata
C24_MetadataFetchedOnlyInPrefetch ==
  /\ [](pc = "gather" => IsSome(chapters_map) /\ IsSome(series_cache))
  /\ [][pc = "gather" =>
          /\ chapters_map' = chapters_map
          /\ series_cache' = series_cache]_vars

\* C24: both prefetch requests failed, and a chapter task has looked up the
\* chapter map and the series metadata and gone on to brute force
C24_Witness ==
  /\ pc = "gather"
  /\ chapters_map = Some(EmptyMap)
  /\ series_cache = Some(JDict(<<>>))
  /\ \E c \in Chapters : chPc[c] = "brute"

====
